---- MODULE Spec2Model ----
(***************************************************************************)
(* A model of get_crt in acme_tiny.py: the ACME v2 client run as a state   *)
(* machine.  The client is one sequential process; every action is one     *)
(* step of get_crt or of one of its helper closures.  The certificate      *)
(* authority (CA), the web server answering the http-01 self-check, the    *)
(* DNS API script and the wall clock are the environment: their answers    *)
(* are chosen with \E inside the action that receives them.                *)
(***************************************************************************)
EXTENDS Integers, FiniteSets, Sequences, TLC

\* ------------------------------------------------------------- bounds ---
MaxAuths == 2        \* authorizations the CA puts in one order
MaxPending == 2      \* pending answers a CA double of kind "free" gives one polling loop
MaxSlack == 1        \* seconds the requests of one run take in total (beyond the sleeps)
NonceSpace == 8      \* nonce values; the CA goes round them, one is never outstanding twice

\* --------------------------------------------------- program constants ---
RetryLimit == 100        \* `depth < 100`
PollCeiling == 3600      \* `time.time() - t0 < 3600`
PollInterval == 2        \* `time.sleep(0 if result is None else 2)`
DefaultWait == 30        \* os.getenv('DNS_PROPAGATION_WAIT', '30')

\* DNS_PROPAGATION_WAIT as int() reads it: the default, a value the operator set,
\* and a negative one, which time.sleep rejects with ValueError.
WaitTimes == {DefaultWait, 5, -1}

BadNonce == "urn:ietf:params:acme:error:badNonce"
None == <<"None", 0>>

\* ------------------------------------------------------------- state ---
VARIABLES
  challenge_type, disable_check, contact, wait_time,   \* arguments and environment of get_crt
  pc, phase,               \* the call site in get_crt, and the position inside the helper it runs
  url, payload, depth,     \* arguments of the running _send_signed_request
  new_nonce,               \* its local new_nonce
  resp,                    \* what the last _send_signed_request returned
  acct_headers, order, ai, authorization, result, t0, certificate_pem,
  err,                     \* the exception that ended the run
  clock, slack,            \* wall clock (seconds) and the request time spent so far
  ca, ca_nonce, outstanding, pendings,   \* the CA double
  files, txt,              \* challenge files on disk, TXT records in the DNS
  \* history, read by the properties only: the signed submissions sent, the
  \* newNonce fetches since the last of them, whether the CA saw a nonce twice,
  \* the submissions of the running request, the last reply received; the
  \* authorizations prepared, cleaned up, firstValid and polled; and for the
  \* authorization at hand the self-check's outcome and the times the "add"
  \* action ended and the challenge was notified
  sent, fetches, replayed, attempts, lastReply, registered,
  prepared, cleaned, firstValid, selfcheck, addEnd, notifiedAt, polled,
  \* the last request made to the CA and the one before it, each with the
  \* reply it got; the authorizations whose latest poll answered "valid", and
  \* whether a poll of the order did
  prevReq, lastReq, pollValid, orderValid,
  \* for the polling loop at hand: when its first and its latest poll were
  \* issued, when the latest answer arrived, and the time between the answer
  \* before and the latest poll (-1: none yet)
  firstPoll, polledAt, pollRet, gap,
  \* the cleanups begun for the authorization at hand
  cleanups

cfgVars == <<challenge_type, disable_check, contact, wait_time>>
ctlVars == <<pc, phase, url, payload, depth, new_nonce, attempts, err>>
runVars == <<acct_headers, order, ai, authorization, result, t0, certificate_pem>>
timeVars == <<clock, slack>>
caVars == <<ca, ca_nonce, outstanding, pendings>>
diskVars == <<files, txt>>
histVars == <<sent, fetches, replayed, lastReply, registered,
              prepared, cleaned, firstValid, selfcheck, addEnd, notifiedAt, polled>>
reqVars == <<prevReq, lastReq, pollValid, orderValid>>
pollHist == <<firstPoll, polledAt, pollRet, gap>>
vars == <<cfgVars, ctlVars, resp, runVars, timeVars, caVars, diskVars, histVars,
          reqVars, pollHist, cleanups>>

Auths == 1..MaxAuths

\* URLs are pairs <<name, index>>; the index tells authorizations and challenges apart.
U(name) == <<name, 0>>
AuthUrl(i) == <<"authz", i>>
ChallengeUrl(i) == <<"chall", i>>
AccountUrl == <<"acct", 0>>    \* the Location header of the newAccount response

\* ------------------------------------------------------ HTTP replies ---
\* What the peer of one HTTP exchange does: net is the transport outcome, the
\* rest is the response when there is one.
Reply(net, code, fmt, type, status, n, offers) ==
  [net |-> net, code |-> code, fmt |-> fmt, type |-> type, status |-> status,
   n |-> n, offers |-> offers]

Ok(code, status, n, offers) == Reply("ok", code, "object", "absent", status, n, offers)

NoReply == Reply("none", 0, "text", "absent", "none", 0, FALSE)

\* A request as the history keeps it: the call site, the authorization it is
\* for, its URL, and the reply: its code, whether that is one of the success
\* codes, and the status in its body.
Req(site, i, u, r) ==
  [site |-> site, i |-> i, url |-> u, code |-> r.code,
   ok |-> (r.net = "ok" /\ r.code \in {200, 201, 204}), status |-> r.status]

NoReq == [site |-> "none", i |-> 0, url |-> None, code |-> 0, ok |-> FALSE, status |-> "none"]

\* Replies that carry no usable result, whatever the request.
ErrorReplies ==
  { Reply("ok", 400, "object", BadNonce, "none", 0, FALSE),
    Reply("ok", 400, "object", "urn:ietf:params:acme:error:malformed", "none", 0, FALSE),
    Reply("ok", 400, "object", "absent", "none", 0, FALSE),
    Reply("ok", 400, "text", "absent", "none", 0, FALSE),
    Reply("ok", 403, "object", "urn:ietf:params:acme:error:unauthorized", "none", 0, FALSE),
    Reply("ok", 202, "object", "absent", "none", 0, FALSE),
    Reply("timeout", 0, "text", "absent", "none", 0, FALSE),
    Reply("connect_timeout", 0, "text", "absent", "none", 0, FALSE),
    Reply("refused", 0, "text", "absent", "none", 0, FALSE),
    Reply("reset", 0, "text", "absent", "none", 0, FALSE) }

\* The error replies to a plain GET: one per way _do_request can fail.
GetErrorReplies ==
  { Reply("ok", 400, "object", BadNonce, "none", 0, FALSE),
    Reply("ok", 403, "text", "absent", "none", 0, FALSE),
    Reply("ok", 202, "object", "absent", "none", 0, FALSE),
    Reply("timeout", 0, "text", "absent", "none", 0, FALSE),
    Reply("connect_timeout", 0, "text", "absent", "none", 0, FALSE),
    Reply("reset", 0, "text", "absent", "none", 0, FALSE) }

\* ------------------------------------------------- _do_request (32-53) ---
\* Python's exception classes, as far as the except clauses tell them apart.
IsSubclass(exc, cls) ==
  \/ exc = cls
  \/ exc = "HTTPError" /\ cls \in {"URLError", "OSError"}
  \/ exc = "URLError" /\ cls = "OSError"
  \/ exc = "socket.timeout" /\ cls = "OSError"
  \/ exc = "ConnectionResetError" /\ cls = "OSError"

\* What urlopen(...) and resp.read() raise for a reply: the default opener turns
\* every status outside 2xx into an HTTPError, which is a URLError.
urlopen(r) ==
  CASE r.net = "timeout" -> "socket.timeout"
    [] r.net \in {"connect_timeout", "refused"} -> "URLError"
    [] r.net = "reset" -> "ConnectionResetError"
    [] r.net = "ok" /\ r.code \notin 200..299 -> "HTTPError"
    [] OTHER -> "none"

\* 'timed out' in str(e.reason)
ReasonTimedOut(r) == r.net = "connect_timeout"

Outcome(exc, what, code) == [exc |-> exc, what |-> what, code |-> code]

\* `code not in [200, 201, 204]`
AcceptedCode(code) == code \in {200, 201, 204}

\* Line 49: the response is a bad-nonce rejection that may be retried.  The
\* subscript resp_data['type'] is evaluated only when the first two conjuncts hold.
TypeSubscript(fmt, type) ==
  IF fmt = "text" THEN "TypeError" ELSE IF type = "absent" THEN "KeyError" ELSE "none"

RetryableBadNonce(d, code, type) == d < RetryLimit /\ code = 400 /\ type = BadNonce

\* The outcome of _do_request for the peer's reply r at retry depth d.
DoRequest(r, d) ==
  LET raised == urlopen(r) IN
  IF raised # "none" /\ IsSubclass(raised, "socket.timeout")
  THEN Outcome("ValueError", "Timeout", -1)
  ELSE IF raised # "none" /\ IsSubclass(raised, "URLError")
  THEN IF ReasonTimedOut(r) THEN Outcome("ValueError", "Timeout", -1)
       ELSE Outcome("ValueError", "Network", -1)
  ELSE
    \* no exception, or the `except IOError` clause: only an HTTPError has
    \* read() and code, anything else gives str(e) and code None (-1 here)
    LET http == raised \in {"none", "HTTPError"}
        code == IF http THEN r.code ELSE -1
        fmt == IF http THEN r.fmt ELSE "text"
        type == IF http THEN r.type ELSE "absent"
    IN IF d < RetryLimit /\ code = 400 /\ TypeSubscript(fmt, type) # "none"
       THEN Outcome(TypeSubscript(fmt, type), "Subscript", code)
       ELSE IF RetryableBadNonce(d, code, type)
       THEN Outcome("IndexError", "BadNonce", code)
       ELSE IF ~AcceptedCode(code)
       THEN Outcome("ValueError", "ACME", code)
       ELSE Outcome("none", "", code)


\* ------------------------------------------------------- the CA double ---
\* A CA of kind "free" answers as it likes, with at most MaxPending pending
\* answers per polling loop.  One of kind "pending" accepts every request,
\* issues orders of one authorization and answers every poll with a pending
\* status ("pending" for an authorization, "processing" for an order); the
\* web server, the disk and the DNS script then work as well.
CAKinds == {"free", "pending"}

PendingStatuses(site) == IF site = "pollAuth" THEN {"pending"} ELSE {"pending", "processing"}

PollStatuses(site) ==
  IF ca = "pending" THEN (IF site = "pollAuth" THEN {"pending"} ELSE {"processing"})
  ELSE IF pendings < MaxPending THEN PendingStatuses(site) \cup {"valid", "invalid"}
  ELSE {"valid", "invalid"}

\* The replies that let the request at call site `site` succeed.
SuccessReplies(site) ==
  CASE site = "newAccount" ->
         IF ca = "pending" THEN {Ok(201, "valid", 0, FALSE)}
         ELSE {Ok(201, "valid", 0, FALSE), Ok(200, "valid", 0, FALSE)}
    [] site = "newOrder" ->
         IF ca = "pending" THEN {Ok(201, "pending", 1, FALSE)}
         ELSE {Ok(201, "pending", n, FALSE) : n \in 0..MaxAuths}
    [] site = "authz" ->
         IF ca = "pending" THEN {Ok(200, s, 0, TRUE) : s \in {"pending", "valid"}}
         ELSE {Ok(200, s, 0, o) : s \in {"pending", "valid", "invalid"}, o \in BOOLEAN}
    [] site \in {"pollAuth", "pollOrder"} -> {Ok(200, s, 0, FALSE) : s \in PollStatuses(site)}
    [] site = "download" -> {Reply("ok", 200, "text", "absent", "pem", 0, FALSE)}
    [] OTHER -> {Ok(200, "none", 0, FALSE)}

CAReplies(site) ==
  IF ca = "pending" THEN SuccessReplies(site)
  ELSE IF site \in {"directory", "newNonce"} THEN SuccessReplies(site) \cup GetErrorReplies
  ELSE SuccessReplies(site) \cup ErrorReplies

\* What the environment outside the CA (disk, openssl, DNS script) does.
LocalOutcomes(bad) == IF ca = "pending" THEN {"ok"} ELSE {"ok"} \cup bad

\* Time a request takes.  The program reads the clock only inside a polling
\* loop, and only a loop that goes on for an hour gets near the ceiling, so
\* request time is tracked there: against the pending CA the requests of the
\* polling loops take at most MaxSlack seconds in all, any other request none.
Durations ==
  IF ca = "pending" /\ pc \in {"pollAuth", "pollOrder"} THEN 0..(MaxSlack - slack) ELSE {0}

\* -------------------------------------------------------------- Init ---
NoErr == [exc |-> "none", what |-> "", code |-> 0, site |-> "", phase |-> ""]

InitWith(kind) ==
  /\ challenge_type \in {"http-01", "dns-01"}
  /\ disable_check \in BOOLEAN
  /\ contact \in {None, <<"mailto", 0>>}
  /\ wait_time \in WaitTimes
  \* an input the chosen challenge type never reads stays at its default
  /\ (challenge_type = "http-01" => wait_time = DefaultWait)
  /\ (challenge_type = "dns-01" => disable_check = FALSE)
  /\ pc = "directory" /\ phase = "start"
  /\ url = None /\ payload = "None" /\ depth = 0 /\ new_nonce = 0
  /\ resp = NoReply
  /\ acct_headers = None
  /\ order = [authorizations |-> 0]
  /\ ai = 0 /\ authorization = "none" /\ result = "None" /\ t0 = 0
  /\ certificate_pem = "None"
  /\ err = NoErr
  /\ clock = 0 /\ slack = 0
  /\ ca = kind /\ ca_nonce = 0 /\ outstanding = {} /\ pendings = 0
  /\ files = {} /\ txt = {}
  /\ sent = {} /\ fetches = 0 /\ replayed = FALSE /\ attempts = 0 /\ lastReply = NoReply
  /\ registered = FALSE
  /\ prepared = {} /\ cleaned = {} /\ firstValid = {}
  /\ selfcheck = "none" /\ addEnd = -1 /\ notifiedAt = -1
  /\ polled = {}
  /\ prevReq = NoReq /\ lastReq = NoReq /\ pollValid = {} /\ orderValid = FALSE
  /\ firstPoll = -1 /\ polledAt = -1 /\ pollRet = -1 /\ gap = -1
  /\ cleanups = 0

Init == InitWith("free")

\* ------------------------------------------------------ control flow ---
\* An exception leaves get_crt: main() reports it and exits.
Raise(e) ==
  /\ pc' = "failed" /\ phase' = "end"
  /\ err' = [exc |-> e.exc, what |-> e.what, code |-> e.code, site |-> pc, phase |-> phase]
  /\ UNCHANGED <<url, payload, depth, new_nonce, attempts>>

\* Entering _send_signed_request(u, p, err_msg) from call site `site` (depth=0).
Call(site, u, p) ==
  /\ pc' = site /\ phase' = "nonce"
  /\ url' = u /\ payload' = p /\ depth' = 0 /\ new_nonce' = 0
  /\ attempts' = 0
  /\ UNCHANGED err

\* Going on to the statement at `site`.
Goto(site) ==
  /\ pc' = site /\ phase' = "start"
  /\ UNCHANGED <<url, payload, depth, new_nonce, attempts, err>>

Tick(d) == clock' = clock + d /\ slack' = slack + d

\* line 132: directory, _, _ = _do_request(directory_url, ...)
GetDirectory ==
  /\ pc = "directory"
  /\ \E r \in CAReplies("directory"), d \in Durations :
       LET out == DoRequest(r, 0) IN
       /\ Tick(d)
       /\ lastReply' = r
       /\ prevReq' = lastReq /\ lastReq' = Req("directory", 0, U("directory"), r)
       /\ IF out.exc = "none"
          THEN Call("newAccount", U("newAccount"), "reg")
          ELSE Raise(out)
  /\ UNCHANGED <<cfgVars, resp, runVars, caVars, diskVars, sent, fetches, replayed, registered,
                 prepared, cleaned, firstValid, selfcheck, addEnd, notifiedAt, polled,
                 pollValid, orderValid, pollHist, cleanups>>

\* ------------------------------------- _send_signed_request (56-68) ---
\* line 58: new_nonce = _do_request(directory['newNonce'])[2]['Replay-Nonce'].
\* The CA hands out the next nonce value, which is not outstanding (n is the
\* one in the headers of this response).
\* Faulty variant: the nonce of the previous response is used again
StaleNonce(n) == IF n > 1 THEN n - 1 ELSE n

NonceFromHeaders(n) == n

FetchNonce ==
  /\ phase = "nonce"
  /\ \E r \in CAReplies("newNonce"), d \in Durations :
       LET out == DoRequest(r, 0) IN
       /\ Tick(d)
       /\ lastReply' = r
       /\ IF out.exc = "none"
          THEN /\ new_nonce' = NonceFromHeaders((ca_nonce % NonceSpace) + 1)
               /\ ca_nonce' = (ca_nonce % NonceSpace) + 1
               /\ outstanding' = outstanding \cup {(ca_nonce % NonceSpace) + 1}
               /\ fetches' = fetches + 1
               /\ phase' = "submit"
               /\ UNCHANGED <<pc, url, payload, depth, attempts, err>>
          ELSE /\ Raise(out)
               /\ UNCHANGED <<ca_nonce, outstanding, fetches>>
  /\ UNCHANGED <<cfgVars, resp, runVars, ca, pendings, diskVars, sent, replayed, registered,
                 prepared, cleaned, firstValid, selfcheck, addEnd, notifiedAt, polled,
                 reqVars, pollHist, cleanups>>

\* Faulty variant: the header always embeds the public key
AlwaysJwk(headers) == [jwk |-> "jwk", kid |-> None]

\* line 60: protected.update({"jwk": jwk} if acct_headers is None else {"kid": ...})
ProtectedKey(headers) ==
  IF headers = None THEN [jwk |-> "jwk", kid |-> None]
  ELSE [jwk |-> "absent", kid |-> headers]

\* lines 59-68: build the JWS, sign it with openssl, submit it; a bad-nonce
\* rejection (IndexError) re-enters _send_signed_request with depth + 1.
Submit ==
  /\ phase = "submit"
  /\ \E sign \in LocalOutcomes({"IOError"}), r \in CAReplies(pc), d \in Durations :
       IF sign # "ok"
       THEN /\ Raise(Outcome("IOError", "OpenSSL", -1))
            /\ UNCHANGED <<resp, timeVars, caVars, histVars, reqVars, pollHist>>
       ELSE
         LET out == DoRequest(r, depth)
             key == ProtectedKey(acct_headers)
         IN
         /\ Tick(d)
         /\ lastReply' = r
         /\ sent' = sent \cup {[url |-> url, payload |-> payload, jwk |-> key.jwk,
                                  kid |-> key.kid, registered |-> registered]}
         /\ registered' = (registered \/ (pc = "newAccount" /\ out.exc = "none"))
         /\ fetches' = 0
         /\ replayed' = (replayed \/ new_nonce \notin outstanding)
         /\ outstanding' = outstanding \ {new_nonce}
         /\ pendings' = IF ca = "free" /\ pc \in {"pollAuth", "pollOrder"}
                           /\ r.status \in PendingStatuses(pc)
                        THEN pendings + 1 ELSE pendings
         /\ notifiedAt' = IF pc = "notify" THEN clock ELSE notifiedAt
         /\ polled' = IF pc = "pollAuth" THEN polled \cup {ai} ELSE polled
         /\ prevReq' = lastReq /\ lastReq' = Req(pc, ai, url, r)
         /\ pollValid' = IF pc # "pollAuth" THEN pollValid
                          ELSE IF lastReq'.ok /\ r.status = "valid" THEN pollValid \cup {ai}
                          ELSE pollValid \ {ai}
         /\ orderValid' = (orderValid \/ (pc = "pollOrder" /\ lastReq'.ok /\ r.status = "valid"))
         /\ IF pc \in {"pollAuth", "pollOrder"}
            THEN /\ firstPoll' = IF firstPoll = -1 THEN clock ELSE firstPoll
                 /\ polledAt' = clock /\ pollRet' = clock + d
                 /\ gap' = IF pollRet = -1 THEN -1 ELSE clock - pollRet
            ELSE UNCHANGED pollHist
         /\ UNCHANGED <<ca, ca_nonce, prepared, cleaned, firstValid, selfcheck, addEnd>>
         /\ CASE out.exc = "none" ->
                   /\ resp' = r /\ phase' = "ret" /\ attempts' = attempts + 1
                   /\ UNCHANGED <<pc, url, payload, depth, new_nonce, err>>
              [] out.exc = "IndexError" ->
                   /\ phase' = "nonce" /\ depth' = depth + 1 /\ new_nonce' = 0
                   /\ attempts' = attempts + 1
                   /\ UNCHANGED <<pc, url, payload, err, resp>>
              [] OTHER ->
                   /\ pc' = "failed" /\ phase' = "end" /\ attempts' = attempts + 1
                   /\ err' = [exc |-> out.exc, what |-> out.what, code |-> out.code,
                              site |-> pc, phase |-> phase]
                   /\ UNCHANGED <<url, payload, depth, new_nonce, resp>>
  /\ UNCHANGED <<cfgVars, runVars, diskVars, cleanups>>


\* ------------------------------------------------- get_crt (136-223) ---
\* Faulty variant: the contact details are never sent
NeverUpdatesContact(c) == FALSE

\* line 140: if contact is not None
UpdatesContact(c) == c # None

\* lines 138-141 / 147: the account is registered; acct_headers holds the
\* response headers, of which only Location (the account URL) is ever read.
Registered ==
  /\ pc = "newAccount" /\ phase = "ret"
  /\ acct_headers' = AccountUrl
  /\ IF UpdatesContact(contact)
     THEN Call("updateContact", acct_headers', "contact")
     ELSE Call("newOrder", U("newOrder"), "order")
  /\ UNCHANGED <<cfgVars, resp, order, ai, authorization, result, t0, certificate_pem,
                 timeVars, caVars, diskVars, histVars>>
  /\ UNCHANGED <<reqVars, pollHist, cleanups>>

\* lines 141-147
ContactUpdated ==
  /\ pc = "updateContact" /\ phase = "ret"
  /\ Call("newOrder", U("newOrder"), "order")
  /\ UNCHANGED <<cfgVars, resp, runVars, timeVars, caVars, diskVars, histVars>>
  /\ UNCHANGED <<reqVars, pollHist, cleanups>>

\* line 151: the for loop moves to authorization i, or is over (lines 210-212).
StartAuth(i, n) ==
  /\ ai' = i
  /\ IF i <= n THEN Call("authz", AuthUrl(i), "None") ELSE Goto("sign")

\* lines 147-152
OrderCreated ==
  /\ pc = "newOrder" /\ phase = "ret"
  /\ order' = [authorizations |-> resp.n]
  /\ StartAuth(1, resp.n)
  /\ UNCHANGED <<cfgVars, resp, acct_headers, authorization, result, t0, certificate_pem,
                 timeVars, caVars, diskVars, histVars>>
  /\ UNCHANGED <<reqVars, pollHist, cleanups>>

\* Faulty variant: the skip tests for the wrong status
SkipOnReady(status) == status = "ready"

\* line 155: if authorization['status'] == "valid": continue
SkipAuthorization(status) == status = "valid"

\* lines 152-171: the authorization as first fetched; skip it, or select the
\* challenge of the configured type.
AuthFetched ==
  /\ pc = "authz" /\ phase = "ret"
  /\ authorization' = resp.status
  /\ firstValid' = IF resp.status = "valid" THEN firstValid \cup {ai} ELSE firstValid
  /\ selfcheck' = "none" /\ addEnd' = -1 /\ notifiedAt' = -1
  /\ IF SkipAuthorization(resp.status)
     THEN StartAuth(ai + 1, order.authorizations)
     ELSE /\ UNCHANGED ai
          /\ IF resp.offers THEN Goto("prepare")
             ELSE Raise(Outcome("ValueError", "UnsupportedChallenge", -1))
  /\ UNCHANGED <<cfgVars, resp, acct_headers, order, result, t0, certificate_pem,
                 timeVars, caVars, diskVars, sent, fetches, replayed, lastReply, registered,
                 prepared, cleaned, polled>>
  /\ cleanups' = 0
  /\ UNCHANGED <<reqVars, pollHist>>

\* lines 173-177: http-01, write the key authorization to <acme_dir>/<token>
WriteChallengeFile ==
  /\ pc = "prepare" /\ challenge_type = "http-01"
  /\ \E o \in LocalOutcomes({"OSError"}) :
       IF o = "ok"
       THEN /\ files' = files \cup {ai} /\ prepared' = prepared \cup {ai}
            /\ Goto("selfcheck")
       ELSE /\ Raise(Outcome("OSError", "open", -1))
            /\ UNCHANGED <<files, prepared>>
  /\ UNCHANGED <<cfgVars, resp, runVars, timeVars, caVars, txt, sent, fetches, replayed, registered,
                 lastReply, cleaned, firstValid, selfcheck, addEnd, notifiedAt, polled>>
  /\ UNCHANGED <<reqVars, pollHist, cleanups>>

\* What the web server of the domain answers the self-check GET.
WebReplies ==
  IF ca = "pending" THEN {Reply("ok", 200, "text", "absent", "keyauthorization", 0, FALSE)}
  ELSE {Reply("ok", 200, "text", "absent", b, 0, FALSE) : b \in {"keyauthorization", "other"}}
       \cup GetErrorReplies

\* Faulty variant: the body of the self-check response is not compared
SelfCheckAnyBody(out, body) == out.exc = "none"

\* line 182: assert (disable_check or _do_request(wellknown_url)[0] == keyauthorization)
SelfCheckPasses(out, body) == out.exc = "none" /\ body = "keyauthorization"

\* line 183: except (AssertionError, ValueError)
SelfCheckCatches(exc) == exc \in {"AssertionError", "ValueError"}

\* lines 179-184 and 196: the self-check, then the call that notifies the CA
SelfCheck ==
  /\ pc = "selfcheck"
  /\ IF disable_check
     THEN /\ selfcheck' = "firstValid"
          /\ Call("notify", ChallengeUrl(ai), "empty")
          /\ UNCHANGED <<timeVars, lastReply>>
     ELSE \E r \in WebReplies, d \in Durations :
            LET out == DoRequest(r, 0)
                exc == IF out.exc # "none" THEN out.exc
                       ELSE IF SelfCheckPasses(out, r.status) THEN "none" ELSE "AssertionError"
            IN
            /\ Tick(d)
            /\ lastReply' = r
            /\ selfcheck' = IF r.net = "ok" /\ r.code = 200 /\ r.status = "keyauthorization"
                            THEN "passed" ELSE "failed"
            /\ IF exc = "none" THEN Call("notify", ChallengeUrl(ai), "empty")
               ELSE IF SelfCheckCatches(exc)
               THEN Raise(Outcome("ValueError", "ChallengeSetup", -1))
               ELSE Raise(out)
  /\ UNCHANGED <<cfgVars, resp, runVars, caVars, diskVars, sent, fetches, replayed, registered,
                 prepared, cleaned, firstValid, addEnd, notifiedAt, polled>>
  /\ UNCHANGED <<reqVars, pollHist, cleanups>>

\* lines 80-102: _execute_dns_api: the script is missing (ValueError), exits
\* non-zero (IOError) or succeeds.
DnsApiOutcomes == LocalOutcomes({"IOError", "ValueError"})

DnsApiError(o) ==
  IF o = "IOError" THEN Outcome("IOError", "DNSAPI", -1)
  ELSE Outcome("ValueError", "DNSScriptMissing", -1)

\* lines 186-190: dns-01, run the "add" action
DnsAdd ==
  /\ pc = "prepare" /\ challenge_type = "dns-01"
  /\ \E o \in DnsApiOutcomes :
       IF o = "ok"
       THEN /\ txt' = txt \cup {ai} /\ prepared' = prepared \cup {ai}
            /\ addEnd' = clock
            /\ Goto("dnswait")
       ELSE /\ Raise(DnsApiError(o))
            /\ UNCHANGED <<txt, prepared, addEnd>>
  /\ UNCHANGED <<cfgVars, resp, runVars, timeVars, caVars, files, sent, fetches, replayed, registered,
                 lastReply, cleaned, firstValid, selfcheck, notifiedAt, polled>>
  /\ UNCHANGED <<reqVars, pollHist, cleanups>>

\* Faulty variant: the propagation wait is dropped
NoSleep(w) == 0

\* lines 192-193: the seconds time.sleep(wait_time) blocks
PropagationSleep(w) == w

\* lines 192-196: wait for the propagation, then the call that notifies the CA
DnsWait ==
  /\ pc = "dnswait"
  /\ IF wait_time < 0
     THEN /\ Raise(Outcome("ValueError", "sleep", -1))
          /\ UNCHANGED clock
     ELSE /\ clock' = clock + PropagationSleep(wait_time)
          /\ Call("notify", ChallengeUrl(ai), "empty")
  /\ UNCHANGED <<cfgVars, resp, runVars, slack, caVars, diskVars, histVars>>
  /\ UNCHANGED <<reqVars, pollHist, cleanups>>

\* ------------------------------------- _poll_until_complete (71-77) ---
\* line 72: result, t0 = None, time.time()
EnterPoll(site) ==
  /\ pc' = site /\ phase' = "loop"
  /\ result' = "None" /\ t0' = clock
  /\ pendings' = 0
  /\ firstPoll' = -1 /\ polledAt' = -1 /\ pollRet' = -1 /\ gap' = -1
  /\ UNCHANGED <<url, payload, depth, new_nonce, attempts, err>>

\* lines 196-197: the CA is notified; poll the authorization
Notified ==
  /\ pc = "notify" /\ phase = "ret"
  /\ EnterPoll("pollAuth")
  /\ UNCHANGED <<cfgVars, resp, acct_headers, order, ai, authorization, certificate_pem,
                 timeVars, ca, ca_nonce, outstanding, diskVars, histVars>>
  /\ UNCHANGED <<reqVars, cleanups>>

\* the pending_statuses of the two callers, lines 197 and 216
PollPending(site) == IF site = "pollAuth" THEN {"pending"} ELSE {"pending", "processing"}

\* Faulty variant: the loop returns whatever the first poll answers
PollOnce(res, site) == res = "None"

\* line 73: while result is None or result['status'] in pending_statuses
PollAgain(res, site) == res = "None" \/ res \in PollPending(site)

\* Faulty variant: the ceiling is twice as high
PollTimedOutLate(elapsed) == ~(elapsed < 2 * PollCeiling)

\* line 74: assert (time.time() - t0 < 3600), "Polling timeout"
PollTimedOut(elapsed) == ~(elapsed < PollCeiling)

\* Faulty variant: the loop polls without a pause
NoPollSleep(res) == 0

\* line 75: time.sleep(0 if result is None else 2)
PollSleep(res) == IF res = "None" THEN 0 ELSE PollInterval

\* Faulty variant: the order's loop polls the authorization again
PollUrlOfAuth(site) == AuthUrl(ai)

\* the url argument of the two callers, lines 197 and 216
PollUrl(site) == IF site = "pollAuth" THEN AuthUrl(ai) ELSE U("order")

\* Faulty variant: the authorization's cleanup is passed over
AfterPollNoCleanup(site) == IF site = "pollAuth" THEN "verdict" ELSE "orderVerdict"

\* the statement _poll_until_complete returns to: the cleanup of line 199
\* after line 197, the test of line 217 after line 216
AfterPoll(site) == IF site = "pollAuth" THEN "cleanup" ELSE "orderVerdict"

\* lines 73-77: one turn of the loop up to the call of _send_signed_request,
\* or the return of the result to line 197 or 216
PollLoop ==
  /\ pc \in {"pollAuth", "pollOrder"} /\ phase = "loop"
  /\ IF ~PollAgain(result, pc)
     THEN /\ Goto(AfterPoll(pc))
          /\ authorization' = IF pc = "pollAuth" THEN result ELSE authorization
          /\ UNCHANGED clock
     ELSE IF PollTimedOut(clock - t0)
     THEN /\ Raise(Outcome("AssertionError", "PollingTimeout", -1))
          /\ UNCHANGED <<clock, authorization>>
     ELSE /\ clock' = clock + PollSleep(result)
          /\ Call(pc, PollUrl(pc), "None")
          /\ UNCHANGED authorization
  /\ UNCHANGED <<cfgVars, resp, acct_headers, order, ai, result, t0, certificate_pem,
                 slack, caVars, diskVars, histVars>>
  /\ UNCHANGED <<reqVars, pollHist, cleanups>>

\* line 76: result, _, _ = _send_signed_request(url, None, err_msg)
PollResult ==
  /\ pc \in {"pollAuth", "pollOrder"} /\ phase = "ret"
  /\ result' = resp.status
  /\ phase' = "loop"
  /\ UNCHANGED <<cfgVars, pc, url, payload, depth, new_nonce, attempts, err, resp,
                 acct_headers, order, ai, authorization, t0, certificate_pem,
                 timeVars, caVars, diskVars, histVars>>
  /\ UNCHANGED <<reqVars, pollHist, cleanups>>


\* ------------------------------------------------- get_crt (199-223) ---
\* lines 199-201: http-01 cleanup, os.remove(wellknown_path)
RemoveChallengeFile ==
  /\ pc = "cleanup" /\ challenge_type = "http-01"
  /\ \E o \in LocalOutcomes({"OSError"}) :
       IF o = "ok"
       THEN /\ files' = files \ {ai} /\ cleaned' = cleaned \cup {ai}
            /\ Goto("verdict")
       ELSE /\ Raise(Outcome("OSError", "remove", -1))
            /\ UNCHANGED <<files, cleaned>>
  /\ UNCHANGED <<cfgVars, resp, runVars, timeVars, caVars, txt, sent, fetches, replayed, registered,
                 lastReply, prepared, firstValid, selfcheck, addEnd, notifiedAt, polled>>
  /\ cleanups' = cleanups + 1
  /\ UNCHANGED <<reqVars, pollHist>>

\* lines 202-204: dns-01 cleanup, run the "rm" action
DnsRemove ==
  /\ pc = "cleanup" /\ challenge_type = "dns-01"
  /\ \E o \in DnsApiOutcomes :
       IF o = "ok"
       THEN /\ txt' = txt \ {ai} /\ cleaned' = cleaned \cup {ai}
            /\ Goto("verdict")
       ELSE /\ Raise(DnsApiError(o))
            /\ UNCHANGED <<txt, cleaned>>
  /\ UNCHANGED <<cfgVars, resp, runVars, timeVars, caVars, files, sent, fetches, replayed, registered,
                 lastReply, prepared, firstValid, selfcheck, addEnd, notifiedAt, polled>>
  /\ cleanups' = cleanups + 1
  /\ UNCHANGED <<reqVars, pollHist>>

\* Faulty variant: any settled authorization passes
AnyStatusPasses(status) == TRUE

\* line 206: if authorization['status'] != "valid": raise
ChallengePassed(status) == status = "valid"

\* lines 206-208, then the next turn of the for loop
CheckAuthorization ==
  /\ pc = "verdict"
  /\ IF ChallengePassed(authorization)
     THEN StartAuth(ai + 1, order.authorizations)
     ELSE /\ Raise(Outcome("ValueError", "ChallengeFailed", -1))
          /\ UNCHANGED ai
  /\ UNCHANGED <<cfgVars, resp, acct_headers, order, authorization, result, t0,
                 certificate_pem, timeVars, caVars, diskVars, histVars>>
  /\ UNCHANGED <<reqVars, pollHist, cleanups>>

\* lines 212-213: export the CSR as DER with openssl, then call finalize
Finalize ==
  /\ pc = "sign"
  /\ \E o \in LocalOutcomes({"IOError"}) :
       IF o = "ok" THEN Call("finalize", U("finalize"), "csr")
       ELSE Raise(Outcome("IOError", "DERExport", -1))
  /\ UNCHANGED <<cfgVars, resp, runVars, timeVars, caVars, diskVars, histVars>>
  /\ UNCHANGED <<reqVars, pollHist, cleanups>>

\* lines 213-216: finalize was accepted; poll the order
Finalized ==
  /\ pc = "finalize" /\ phase = "ret"
  /\ EnterPoll("pollOrder")
  /\ UNCHANGED <<cfgVars, resp, acct_headers, order, ai, authorization, certificate_pem,
                 timeVars, ca, ca_nonce, outstanding, diskVars, histVars>>
  /\ UNCHANGED <<reqVars, cleanups>>

\* Faulty variant: any settled order counts as issued
OrderSettled(status) == status \notin {"pending", "processing"}

\* line 217: if order['status'] != "valid": raise
OrderIssued(status) == status = "valid"

\* lines 217-221
CheckOrder ==
  /\ pc = "orderVerdict"
  /\ IF OrderIssued(result)
     THEN Call("download", U("cert"), "None")
     ELSE Raise(Outcome("ValueError", "OrderFailed", -1))
  /\ UNCHANGED <<cfgVars, resp, runVars, timeVars, caVars, diskVars, histVars>>
  /\ UNCHANGED <<reqVars, pollHist, cleanups>>

\* lines 221-223: return certificate_pem
Downloaded ==
  /\ pc = "download" /\ phase = "ret"
  /\ certificate_pem' = resp.status
  /\ pc' = "done" /\ phase' = "end"
  /\ UNCHANGED <<cfgVars, url, payload, depth, new_nonce, attempts, err, resp,
                 acct_headers, order, ai, authorization, result, t0,
                 timeVars, caVars, diskVars, histVars>>
  /\ UNCHANGED <<reqVars, pollHist, cleanups>>

\* ----------------------------------------------------- specifications ---
Next ==
  \/ GetDirectory \/ FetchNonce \/ Submit
  \/ Registered \/ ContactUpdated \/ OrderCreated \/ AuthFetched
  \/ WriteChallengeFile \/ SelfCheck \/ DnsAdd \/ DnsWait
  \/ Notified \/ PollLoop \/ PollResult
  \/ RemoveChallengeFile \/ DnsRemove \/ CheckAuthorization
  \/ Finalize \/ Finalized \/ CheckOrder \/ Downloaded

\* Any CA, any web server, any DNS script.
Spec == Init /\ [][Next]_vars

\* The steps a run takes against a CA that answers every poll with a pending
\* status: no polling loop returns, so nothing after one is reached.
NextPending ==
  \/ GetDirectory \/ FetchNonce \/ Submit
  \/ Registered \/ OrderCreated \/ AuthFetched
  \/ WriteChallengeFile \/ SelfCheck \/ DnsAdd \/ DnsWait
  \/ Notified \/ PollLoop \/ PollResult
  \/ Finalize \/ Finalized

\* A run with the default options, for either challenge type.
InitPending ==
  /\ InitWith("pending")
  /\ contact = None /\ disable_check = FALSE /\ wait_time = DefaultWait

\* The process is sequential and every request returns, so it always takes its
\* next step.
SpecPending == InitPending /\ [][NextPending]_vars /\ WF_vars(NextPending)


\* ------------------------------------------------------------ claims ---
SentUrls == {s.url : s \in sent}
Ended == pc \in {"done", "failed"}
FailedWith(exc, what) == pc = "failed" /\ err.exc = exc /\ err.what = what

\* The reply is an HTTP 400 whose JSON body has type badNonce.
IsBadNonceReply(r) == r.net = "ok" /\ r.code = 400 /\ r.fmt = "object" /\ r.type = BadNonce

\* The run ended in the submission of a signed request, on the reply lastReply.
FailedOnReply == pc = "failed" /\ err.phase = "submit" /\ err.what # "OpenSSL"

\* C1: a signed request that the CA keeps rejecting with HTTP 400 badNonce is
\* submitted 101 times (the first submission and 100 re-submissions, the last
\* at depth 100), never more, and only then is the error surfaced.
C1_ExactlyHundredRetries ==
  /\ attempts <= 101
  /\ (FailedOnReply /\ IsBadNonceReply(lastReply)) => (attempts = 101 /\ depth = 100)

\* C2: the CA never sees a nonce twice; a signed submission carries the nonce
\* of the one newNonce fetch made since the previous submission, which is the
\* last nonce the CA issued and is still unused.
C2_NonceSingleUse ==
  /\ ~replayed
  /\ fetches <= 1
  /\ Cardinality(outstanding) <= 1
  /\ phase = "submit" => (fetches = 1 /\ new_nonce = ca_nonce /\ new_nonce \in outstanding)
  /\ phase \in {"ret", "loop"} => (fetches = 0 /\ outstanding = {})

C2_Witness ==
  /\ phase = "submit" /\ pc = "pollOrder" /\ ca_nonce >= 6 /\ new_nonce = ca_nonce
  /\ Cardinality(sent) >= 5

\* C3: when the run has ended, by success or by any failure, every
\* authorization that was prepared (challenge file written, "add" action run)
\* has been cleaned up (file removed, "rm" action run).
C3_CleanupRegardlessOfOutcome == Ended => (prepared \subseteq cleaned /\ files = {} /\ txt = {})

\* C4: an authorization whose first fetch returned "valid" is never prepared,
\* self-checked, notified, polled or cleaned up; the run is already past it.
C4_ValidAuthorizationSkipped ==
  \A i \in firstValid :
    /\ i \notin prepared /\ i \notin cleaned /\ i \notin polled
    /\ i \notin files /\ i \notin txt
    /\ ChallengeUrl(i) \notin SentUrls
    /\ (ai = i => Ended)
    /\ Cardinality({s \in sent : s.url = AuthUrl(i)}) = 1
    /\ (ai = i + 1 /\ ~Ended => pc \in {"authz", "sign"} \/ i + 1 \notin firstValid)

C4_Witness ==
  /\ firstValid = {1} /\ order.authorizations = 2 /\ ai = 2 /\ pc = "cleanup"
  /\ prepared = {2} /\ polled = {2}


\* C5: when the enabled http-01 self-check fails (the GET fails, or its body
\* is not the key authorization), the run has aborted with the challenge-setup
\* error, and neither that challenge's URL nor the authorization's poll, the
\* finalize URL or the certificate URL has been sent a request.
C5_SelfCheckFailureAborts ==
  selfcheck = "failed" =>
    /\ ~disable_check /\ challenge_type = "http-01"
    /\ FailedWith("ValueError", "ChallengeSetup") /\ err.site = "selfcheck"
    /\ ChallengeUrl(ai) \notin SentUrls
    /\ ai \notin polled
    /\ U("finalize") \notin SentUrls /\ U("order") \notin SentUrls /\ U("cert") \notin SentUrls
    /\ certificate_pem = "None"

C5_Witness ==
  /\ selfcheck = "failed" /\ lastReply.code = 200 /\ lastReply.status = "other"
  /\ FailedWith("ValueError", "ChallengeSetup") /\ ai = 2 /\ files = {2}

InPoll == pc \in {"pollAuth", "pollOrder"}
PollingTimeout == FailedWith("AssertionError", "PollingTimeout")

\* C6: against a CA that answers every poll with a pending status, a run that
\* enters a polling loop ends with the polling-timeout error, which is raised
\* only once 3600 seconds have passed since the loop began; and a loop that
\* comes round after more than 3600 seconds aborts there and then.

C6_PollingTimeoutCeiling ==
  /\ InPoll ~> PollingTimeout
  /\ [](PollingTimeout => clock - t0 >= 3600)
  /\ [][(InPoll /\ phase = "loop" /\ clock - t0 > 3600) => PollingTimeout']_vars

C6_Witness == PollingTimeout /\ err.site = "pollOrder" /\ clock - t0 > 3600

\* The states after the order's polling loop has returned; result is then the
\* status the order's last poll gave.
OrderPollEnded ==
  \/ pc \in {"orderVerdict", "download", "done"}
  \/ pc = "failed" /\ err.site \in {"orderVerdict", "download"}

\* C7: when the order's polling ends with a status other than "valid", the
\* run aborts with the order-failed error at its next step, sends nothing to
\* the certificate URL and returns no certificate.
C7_OrderFailure ==
  (OrderPollEnded /\ result # "valid") =>
    /\ pc = "orderVerdict" \/ FailedWith("ValueError", "OrderFailed")
    /\ U("cert") \notin SentUrls
    /\ certificate_pem = "None"

C7_Witness == FailedWith("ValueError", "OrderFailed") /\ result = "invalid" /\ pendings = 1

DnsApiFailed == pc = "failed" /\ err.what \in {"DNSAPI", "DNSScriptMissing"}

\* C8: under dns-01 a challenge URL is POSTed only for an authorization whose
\* "add" action has completed, at least the configured propagation wait after
\* the action's end; and a failed "add" action leaves it un-POSTed.
C8_DnsOrdering ==
  challenge_type = "dns-01" =>
    /\ \A i \in Auths : ChallengeUrl(i) \in SentUrls => i \in prepared
    /\ notifiedAt # -1 => (addEnd # -1 /\ addEnd <= notifiedAt
                           /\ notifiedAt - addEnd >= wait_time /\ wait_time >= 0)
    /\ (DnsApiFailed /\ err.site = "prepare") => ChallengeUrl(ai) \notin SentUrls

C8_Witness ==
  /\ challenge_type = "dns-01" /\ wait_time = 5 /\ ai = 2 /\ addEnd > 5
  /\ notifiedAt = addEnd + 5 /\ ChallengeUrl(2) \in SentUrls

\* C9: a signed submission sent before newAccount has returned successfully
\* carries jwk and no kid; one sent after carries kid, the account URL that
\* registration returned, and no jwk; so none carries both or neither, and
\* none carries kid while no account is registered.
C9_KeyIdentification ==
  /\ \A s \in sent :
       /\ ~s.registered => (s.jwk = "jwk" /\ s.kid = None /\ s.url = U("newAccount"))
       /\ s.registered => (s.jwk = "absent" /\ s.kid = AccountUrl /\ s.url # U("newAccount"))
  /\ acct_headers = None => \A s \in sent : s.kid = None
  /\ acct_headers # None => (registered /\ acct_headers = AccountUrl)

C9_Witness ==
  /\ \E s \in sent : s.jwk = "jwk" /\ s.url = U("newAccount")
  /\ \E s \in sent : s.kid = AccountUrl /\ s.url = AccountUrl /\ s.payload = "contact"
  /\ \E s \in sent : s.kid = AccountUrl /\ s.url = U("cert")

\* C10: a 4xx/5xx response to a signed submission that is not a 400 badNonce
\* ends the request without a re-submission and is surfaced as the ValueError
\* of _do_request that carries url, payload, code and body.
C10_OtherErrorsSurfaceAsACMEError ==
  /\ (phase = "nonce" /\ depth > 0) => IsBadNonceReply(lastReply)
  /\ (FailedOnReply /\ lastReply.net = "ok" /\ lastReply.code >= 400
        /\ ~IsBadNonceReply(lastReply))
       => (FailedWith("ValueError", "ACME") /\ err.code = lastReply.code /\ attempts = 1)

\* The request that follows the completion of authorization i: the fetch of
\* the next authorization of the order, or finalize after the last one.
IsNextAuth(b, i) ==
  IF i < order.authorizations
  THEN b.site = "authz" /\ b.i = i + 1 /\ b.url = AuthUrl(i + 1)
  ELSE b.site = "finalize" /\ b.url = U("finalize")

\* Request b is the one that comes after request a in the order of the protocol.
Follows(a, b) ==
  CASE a.site = "none" -> b.site = "directory"
    [] a.site = "directory" -> a.ok /\ b.site = "newAccount" /\ b.url = U("newAccount")
    [] a.site = "newAccount" ->
         /\ a.ok
         /\ IF contact # None THEN b.site = "updateContact" /\ b.url = AccountUrl
            ELSE b.site = "newOrder" /\ b.url = U("newOrder")
    [] a.site = "updateContact" -> a.ok /\ b.site = "newOrder" /\ b.url = U("newOrder")
    [] a.site = "newOrder" -> a.ok /\ IsNextAuth(b, 0)
    [] a.site = "authz" ->
         /\ a.ok
         /\ IF a.status = "valid" THEN IsNextAuth(b, a.i)
            ELSE b.site = "notify" /\ b.i = a.i /\ b.url = ChallengeUrl(a.i)
    [] a.site = "notify" -> a.ok /\ b.site = "pollAuth" /\ b.i = a.i /\ b.url = AuthUrl(a.i)
    [] a.site = "pollAuth" ->
         /\ a.ok
         /\ IF a.status = "pending" THEN b.site = "pollAuth" /\ b.i = a.i /\ b.url = a.url
            ELSE a.status = "valid" /\ IsNextAuth(b, a.i)
    [] a.site = "finalize" -> a.ok /\ b.site = "pollOrder" /\ b.url = U("order")
    [] a.site = "pollOrder" ->
         /\ a.ok
         /\ IF a.status \in {"pending", "processing"} THEN b.site = "pollOrder" /\ b.url = a.url
            ELSE a.status = "valid" /\ b.site = "download" /\ b.url = U("cert")
    [] OTHER -> FALSE

\* C11: every request to the CA is the successor, in the protocol's order
\* (directory, newAccount, contact update if any, newOrder, per authorization
\* fetch, notification and polls while pending, finalize, order polls while
\* pending or processing, certificate), of the accepted request before it; a
\* run that returns has made the certificate request last, returns the body
\* of its response and has seen the order "valid"; no other run holds a
\* certificate.
C11_HappyPathSequence ==
  /\ lastReq.site # "none" => Follows(prevReq, lastReq)
  /\ pc = "done" => /\ lastReq.site = "download" /\ lastReq.ok
                    /\ certificate_pem = lastReply.status
                    /\ orderValid
  /\ certificate_pem # "None" => pc = "done"

C11_Witness ==
  /\ pc = "done" /\ certificate_pem = "pem" /\ order.authorizations = 2
  /\ polled = {1, 2} /\ pendings = 1 /\ contact # None

\* Authorization i is over: skipped as valid, or polled to "valid" and cleaned up.
Completed(i) ==
  \/ i \in firstValid
  \/ i \in pollValid /\ i \in cleaned /\ i \notin files /\ i \notin txt

\* Something has been done for authorization i: a request to its URL or to
\* its challenge's URL, or its challenge response put in place.
Begun(i) ==
  \/ AuthUrl(i) \in SentUrls \/ ChallengeUrl(i) \in SentUrls
  \/ i \in prepared \/ i \in polled \/ i \in files \/ i \in txt

\* C12: nothing is done for an authorization (no fetch, Prepare, notification
\* or poll) before the authorization preceding it is over, that is skipped as
\* already valid, or polled to "valid" and cleaned up.
C12_SequentialAuthorizations ==
  \A i \in Auths : Begun(i + 1) => (Begun(i) /\ Completed(i))

C12_Witness ==
  /\ AuthUrl(2) \in SentUrls /\ 2 \in prepared /\ 2 \in polled
  /\ 1 \in pollValid /\ 1 \in cleaned /\ 1 \notin firstValid

\* C13: in a polling loop a poll is issued at least 2 seconds after the answer
\* to the poll before it; no poll is issued more than 3600 seconds after the
\* loop's first poll; and the loop returns no result that arrived more than
\* 3600 seconds after its first poll.
C13_HardPollingCeiling ==
  /\ gap # -1 => gap >= PollInterval
  /\ polledAt # -1 => polledAt - firstPoll <= PollCeiling
  /\ pc \in {"cleanup", "orderVerdict"} => pollRet - firstPoll <= PollCeiling

\* C14: a submission rejected with badNonce below the retry limit does not
\* end the run, it is followed by a re-submission of the same request; and
\* the depth of a running request is the number of its re-submissions.
C14_RetrySameRequest ==
  /\ phase \in {"nonce", "submit"} => attempts = depth
  /\ ~(FailedOnReply /\ IsBadNonceReply(lastReply) /\ depth < RetryLimit)

\* C15: finalize is prepared or sent only when every authorization of the
\* order answered "valid" at its first fetch or at its latest poll; the
\* polling of an authorization returns only on an accepted poll whose status
\* is not "pending"; and the challenge-failed error is raised on exactly such
\* a poll whose status is not "valid", with finalize never sent.
C15_FinalizeOnlyIfAllValid ==
  /\ (pc \in {"sign", "finalize"} \/ U("finalize") \in SentUrls) =>
       \A i \in 1..order.authorizations : i \in firstValid \/ i \in pollValid
  /\ pc \in {"cleanup", "verdict"} =>
       /\ lastReq.site = "pollAuth" /\ lastReq.i = ai /\ lastReq.ok
       /\ lastReq.status # "pending"
  /\ (pc = "failed" /\ err.site = "verdict") =>
       /\ FailedWith("ValueError", "ChallengeFailed")
       /\ lastReq.site = "pollAuth" /\ lastReq.i = ai
       /\ lastReq.status \notin {"pending", "valid"}
       /\ U("finalize") \notin SentUrls
  /\ FailedWith("ValueError", "ChallengeFailed") => err.site = "verdict"

C15_Witness ==
  /\ FailedWith("ValueError", "ChallengeFailed") /\ ai = 2 /\ 1 \in pollValid
  /\ lastReq.status = "invalid" /\ pendings = 1

\* C16: the cleanup of an authorization is begun at most once, only after its
\* polling has returned and with no request in between; the verdict on the
\* authorization is reached only with the cleanup done once and the file or
\* TXT record gone; so the challenge-failed error leaves nothing in place, and
\* an authorization that was polled is cleaned up before the next is fetched.
C16_CleanupExactlyOnce ==
  /\ cleanups <= 1
  /\ pc = "cleanup" => (cleanups = 0 /\ ai \in polled /\ lastReq.site = "pollAuth")
  /\ (pc = "verdict" \/ (pc = "failed" /\ err.site = "verdict")) =>
       /\ cleanups = 1 /\ ai \in cleaned /\ ai \notin files /\ ai \notin txt
       /\ lastReq.site = "pollAuth" /\ lastReq.i = ai
  /\ FailedWith("ValueError", "ChallengeFailed") => (files = {} /\ txt = {})
  /\ \A i \in polled : i < ai => (i \in cleaned /\ i \notin files /\ i \notin txt)

C16_Witness ==
  /\ FailedWith("ValueError", "ChallengeFailed") /\ challenge_type = "dns-01"
  /\ cleanups = 1 /\ ai \in cleaned /\ ai \in prepared /\ txt = {}

\* C17: with a contact list, the request after the accepted newAccount is the
\* one contact update, sent to the account URL with payload {contact} and
\* kid, and newOrder comes after it; without one, nothing is sent to the
\* account URL and newOrder comes right after newAccount; and newAccount
\* accepted with any success code lets the run go on.
C17_ContactUpdate ==
  /\ lastReq.site = "updateContact" =>
       /\ contact # None /\ prevReq.site = "newAccount" /\ prevReq.ok
       /\ lastReq.url = AccountUrl
  /\ \A s \in sent : s.url = AccountUrl =>
       (s.payload = "contact" /\ s.kid = AccountUrl /\ s.jwk = "absent")
  /\ lastReq.site = "newOrder" =>
       /\ prevReq.ok
       /\ prevReq.site = IF contact = None THEN "newAccount" ELSE "updateContact"
  /\ contact = None => AccountUrl \notin SentUrls
  /\ (lastReq.site = "newAccount" /\ lastReq.ok) => ~(pc = "failed" /\ err.site = "newAccount")

C17_Witness ==
  /\ prevReq.site = "newAccount" /\ prevReq.code = 200
  /\ lastReq.site = "updateContact" /\ lastReq.ok /\ pc = "newOrder"

\* C18: every signed request starts at depth 0, and a request made after the
\* registration that the CA rejects with badNonce ends the run only after its
\* own 100 re-submissions.
C18_RetryBudgetPerRequest ==
  /\ (phase = "nonce" /\ attempts = 0) => depth = 0
  /\ (FailedOnReply /\ IsBadNonceReply(lastReply) /\ registered) => attempts = RetryLimit + 1

====
